---- MODULE Spec2Model ----
(***************************************************************************)
(* Model of SemanticAnalyzer (src/SemanticAnalyzer.cpp) and of the driver  *)
(* program in src/main.cpp.                                                *)
(*                                                                         *)
(* The analyzer walks an AST depth first.  The AST is the input: it is not *)
(* stored, each action draws the next node (kind, name, type spelling,     *)
(* initializer) from small sets, so every AST of at most MaxNodes nodes,   *)
(* one node on each line, is covered.  call_stack holds the activations of *)
(* visit_function that are in progress; an exception unwinds all of them   *)
(* up to the caller of analyze, and the analyzer object stays as the throw *)
(* left it.  Null nodes are not part of the input.                         *)
(* The member symbol_table is never read or written and is left out.       *)
(***************************************************************************)
EXTENDS Integers, Sequences, FiniteSets, TLC

\* ---------------------------------------------------------------- bounds
MaxNodes == 3

\* ---------------------------------------------------------------- inputs
Names == {"main", "a"}
Lines == 1..MaxNodes
NoLine == 0
NoAnnotation == "<null>"
NoInitializer == "<null>"
Spellings == {"i32", "auto", "void"}
Annotations == Spellings \cup {NoAnnotation}
ExprKinds == {"IntegerLiteral", "StringLiteral"}
Initializers == ExprKinds \cup {NoInitializer}
OtherKinds == {"Return", "Assignment", "If", "While"}
\* values an uninitialized int / bool field of a local Symbol may hold
IndeterminateInt == {0, 32}
IndeterminateBool == BOOLEAN

\* ---------------------------------------------------------------- types
TypeInfo(kind, width, is_signed, is_mutable) ==
    [kind |-> kind, width |-> width, is_signed |-> is_signed, is_mutable |-> is_mutable]

Symbol(name, symbol_type, type_info, is_initialized, declaration_line) ==
    [name |-> name, symbol_type |-> symbol_type, type_info |-> type_info,
     is_initialized |-> is_initialized, declaration_line |-> declaration_line]

\* result of a call that either returns a value or throws
Ret(v) == [thrown |-> FALSE, value |-> v]
Throw(e) == [thrown |-> TRUE, error |-> e]

\* outcome of the last analyze call, as its caller sees it
NoCall == [status |-> "none", cls |-> "", what |-> <<>>, line |-> NoLine]
Running == [status |-> "running", cls |-> "", what |-> <<>>, line |-> NoLine]
Ok == [status |-> "ok", cls |-> "", what |-> <<>>, line |-> NoLine]
SemanticError(msg, line) ==
    [status |-> "error", cls |-> "SemanticError", what |-> msg, line |-> line]
runtime_error(msg) ==
    [status |-> "error", cls |-> "std::runtime_error", what |-> msg, line |-> NoLine]
logic_error(msg) ==
    [status |-> "error", cls |-> "std::logic_error", what |-> msg, line |-> NoLine]

VARIABLES scope_stack, in_function, current_return_type, call_stack, outcome, node, nodes_left,
          test, test_result
vars == <<scope_stack, in_function, current_return_type, call_stack, outcome, node, nodes_left,
          test, test_result>>

EmptyScope == [n \in {} |-> NoLine]
\* current_return_type has no initializer and is never read
Uninitialized == TypeInfo("<indeterminate>", 0, FALSE, FALSE)

\* ---------------------------------------------------------------- pure functions
\* mutant: u32 is given the signedness of i32
parse_type_u32_signed(type_name) ==
    CASE type_name = "i8" -> Ret(TypeInfo("Int", 8, TRUE, FALSE))
      [] type_name = "u8" -> Ret(TypeInfo("Int", 8, FALSE, FALSE))
      [] type_name = "i16" -> Ret(TypeInfo("Int", 16, TRUE, FALSE))
      [] type_name = "u16" -> Ret(TypeInfo("Int", 16, FALSE, FALSE))
      [] type_name = "i32" -> Ret(TypeInfo("Int", 32, TRUE, FALSE))
      [] type_name = "u32" -> Ret(TypeInfo("Int", 32, TRUE, FALSE))
      [] type_name = "i64" -> Ret(TypeInfo("Int", 64, TRUE, FALSE))
      [] type_name = "u64" -> Ret(TypeInfo("Int", 64, FALSE, FALSE))
      [] type_name = "i128" -> Ret(TypeInfo("Int", 128, TRUE, FALSE))
      [] type_name = "u128" -> Ret(TypeInfo("Int", 128, FALSE, FALSE))
      [] type_name = "f32" -> Ret(TypeInfo("Float", 32, TRUE, FALSE))
      [] type_name = "f64" -> Ret(TypeInfo("Float", 64, TRUE, FALSE))
      [] type_name = "str" -> Ret(TypeInfo("String", 0, FALSE, FALSE))
      [] type_name = "string" -> Ret(TypeInfo("String", 0, FALSE, FALSE))
      [] type_name = "bool" -> Ret(TypeInfo("Bool", 0, FALSE, FALSE))
      [] type_name = "auto" -> Ret(TypeInfo("Auto", 0, FALSE, FALSE))
      [] OTHER -> Throw(runtime_error(<<"Unknown type: ", type_name>>))

parse_type(type_name) ==
    CASE type_name = "i8" -> Ret(TypeInfo("Int", 8, TRUE, FALSE))
      [] type_name = "u8" -> Ret(TypeInfo("Int", 8, FALSE, FALSE))
      [] type_name = "i16" -> Ret(TypeInfo("Int", 16, TRUE, FALSE))
      [] type_name = "u16" -> Ret(TypeInfo("Int", 16, FALSE, FALSE))
      [] type_name = "i32" -> Ret(TypeInfo("Int", 32, TRUE, FALSE))
      [] type_name = "u32" -> Ret(TypeInfo("Int", 32, FALSE, FALSE))
      [] type_name = "i64" -> Ret(TypeInfo("Int", 64, TRUE, FALSE))
      [] type_name = "u64" -> Ret(TypeInfo("Int", 64, FALSE, FALSE))
      [] type_name = "i128" -> Ret(TypeInfo("Int", 128, TRUE, FALSE))
      [] type_name = "u128" -> Ret(TypeInfo("Int", 128, FALSE, FALSE))
      [] type_name = "f32" -> Ret(TypeInfo("Float", 32, TRUE, FALSE))
      [] type_name = "f64" -> Ret(TypeInfo("Float", 64, TRUE, FALSE))
      [] type_name = "str" -> Ret(TypeInfo("String", 0, FALSE, FALSE))
      [] type_name = "string" -> Ret(TypeInfo("String", 0, FALSE, FALSE))
      [] type_name = "bool" -> Ret(TypeInfo("Bool", 0, FALSE, FALSE))
      [] type_name = "auto" -> Ret(TypeInfo("Auto", 0, FALSE, FALSE))
      [] OTHER -> Throw(runtime_error(<<"Unknown type: ", type_name>>))

\* mutant: signedness is not compared
types_compatible_ignoring_sign(expected, actual) ==
    IF expected.kind = "Auto" THEN TRUE
    ELSE IF expected.kind # actual.kind THEN FALSE
    ELSE IF expected.kind = "Int" \/ expected.kind = "Float"
         THEN expected.width = actual.width
    ELSE TRUE

types_compatible(expected, actual) ==
    IF expected.kind = "Auto" THEN TRUE
    ELSE IF expected.kind # actual.kind THEN FALSE
    ELSE IF expected.kind = "Int" \/ expected.kind = "Float"
         THEN expected.width = actual.width /\ expected.is_signed = actual.is_signed
    ELSE TRUE

visit_expression(expr) == TypeInfo("Unknown", 0, FALSE, FALSE)

\* scope_stack.back()
back(stack) == stack[Len(stack)]

\* a Symbol* : nullptr or a pointer to a stored symbol
nullptr == [found |-> FALSE]
Ptr(sym) == [found |-> TRUE, symbol |-> sym]

\* mutant: the scan runs from the outermost scope to the innermost
RECURSIVE find_symbol_outermost_first(_, _)
find_symbol_outermost_first(stack, name) ==
    IF stack = <<>> THEN nullptr
    ELSE IF name \in DOMAIN Head(stack) THEN Ptr(Head(stack)[name])
    ELSE find_symbol_outermost_first(Tail(stack), name)

\* mutant: only the innermost scope is searched
find_symbol_current_only(stack, name) ==
    IF stack = <<>> THEN nullptr
    ELSE IF name \in DOMAIN back(stack) THEN Ptr(back(stack)[name])
    ELSE nullptr

RECURSIVE find_symbol(_, _)
find_symbol(stack, name) ==
    IF stack = <<>> THEN nullptr
    ELSE IF name \in DOMAIN back(stack) THEN Ptr(back(stack)[name])
    ELSE find_symbol(SubSeq(stack, 1, Len(stack) - 1), name)

\* mutant: no name is ever reported as bound
count_never_bound(scope, name) == 0

\* std::map::count on one scope: 1 when the scope binds name, else 0
count(scope, name) == IF name \in DOMAIN scope THEN 1 ELSE 0

enter_scope(stack) == Append(stack, EmptyScope)

exit_scope(stack) ==
    IF stack = <<>> THEN Throw(logic_error(<<"Scope stack underflow">>))
    ELSE Ret(SubSeq(stack, 1, Len(stack) - 1))

\* scope_stack.back()[name] = sym
Store(stack, name, sym) == [stack EXCEPT ![Len(stack)] = (name :> sym) @@ @]

\* ---------------------------------------------------------------- control
\* a direct call of one of the two pure functions of the type system: the
\* function, its arguments, and whether it has been made
Test(fn, type_name, expected, actual) ==
    [fn |-> fn, done |-> FALSE, type_name |-> type_name,
     expected |-> expected, actual |-> actual]
NoTest == Test("<none>", "", Uninitialized, Uninitialized)
NoResult == Ret("<none>")

\* an AST node: the kind tag, the line and the fields the handlers read
Node(kind, name, type, initializer, line) ==
    [kind |-> kind, name |-> name, type |-> type, initializer |-> initializer, line |-> line]
NoNode == Node("<none>", "", NoAnnotation, NoInitializer, NoLine)

\* an activation of visit_function: its node and the loop it is in
Frame(name, return_type, line, pc) ==
    [name |-> name, return_type |-> return_type, line |-> line, pc |-> pc]

\* no analyze call is active: the next node is the root of a new call
Idle == call_stack = <<>>

\* visit(n): the next node of the input is dispatched, as the root of a new
\* analyze call or as the next statement of the innermost function body
visit(n) ==
    /\ nodes_left > 0
    /\ nodes_left' = nodes_left - 1
    /\ node' = n
    /\ UNCHANGED <<test, test_result>>

\* the parameter loop of the innermost activation is over
InBody(stack) ==
    IF stack = <<>> THEN stack ELSE [stack EXCEPT ![Len(stack)].pc = "body"]

\* an exception leaves analyze: every activation is unwound, nothing is undone
Raise(e) ==
    /\ outcome' = e
    /\ call_stack' = <<>>
    /\ UNCHANGED <<scope_stack, in_function, current_return_type>>

\* the handler of a statement returns to its caller
Return ==
    /\ call_stack' = InBody(call_stack)
    /\ outcome' = IF Idle THEN Ok ELSE Running

Init ==
    /\ scope_stack = enter_scope(<<>>)
    /\ in_function = FALSE
    /\ current_return_type = Uninitialized
    /\ call_stack = <<>>
    /\ outcome = NoCall
    /\ node = NoNode
    /\ nodes_left = MaxNodes
    /\ test = NoTest
    /\ test_result = NoResult

\* ---------------------------------------------------------------- handlers
\* sym.type_info of a declaration without annotation: only kind is assigned, so
\* width and is_signed hold whatever was in memory.  They reach the stored
\* symbol only when no initializer overwrites type_info; in every other case
\* the choice is not observable and one value stands for all.
Garbage(type_annotation, initializer, values) ==
    IF type_annotation = NoAnnotation /\ initializer = NoInitializer
    THEN values ELSE {CHOOSE v \in values : TRUE}

\* mutant: the scope of the function body is not pushed
visit_function_no_enter_scope(name, return_type, line) ==
    /\ visit(Node("Function", name, return_type, NoInitializer, line))
    /\ IF find_symbol(scope_stack, name).found
       THEN Raise(SemanticError(<<"Duplicate function name '", name, "'">>, line))
       ELSE IF parse_type(return_type).thrown
       THEN Raise(parse_type(return_type).error)
       ELSE LET func_sym == Symbol(name, "Function", parse_type(return_type).value, TRUE, line)
            IN /\ scope_stack' = Store(scope_stack, name, func_sym)
               /\ in_function' = TRUE
               /\ current_return_type' = func_sym.type_info
               /\ call_stack' = Append(InBody(call_stack), Frame(name, return_type, line, "params"))
               /\ outcome' = Running

\* mutant: the function symbol is not stored in the enclosing scope
visit_function_unregistered(name, return_type, line) ==
    /\ visit(Node("Function", name, return_type, NoInitializer, line))
    /\ IF find_symbol(scope_stack, name).found
       THEN Raise(SemanticError(<<"Duplicate function name '", name, "'">>, line))
       ELSE IF parse_type(return_type).thrown
       THEN Raise(parse_type(return_type).error)
       ELSE LET func_sym == Symbol(name, "Function", parse_type(return_type).value, TRUE, line)
            IN /\ scope_stack' = enter_scope(scope_stack)
               /\ in_function' = TRUE
               /\ current_return_type' = func_sym.type_info
               /\ call_stack' = Append(InBody(call_stack), Frame(name, return_type, line, "params"))
               /\ outcome' = Running

\* visit_function up to the parameter loop
visit_function(name, return_type, line) ==
    /\ visit(Node("Function", name, return_type, NoInitializer, line))
    /\ IF find_symbol(scope_stack, name).found
       THEN Raise(SemanticError(<<"Duplicate function name '", name, "'">>, line))
       ELSE IF parse_type(return_type).thrown
       THEN Raise(parse_type(return_type).error)
       ELSE LET func_sym == Symbol(name, "Function", parse_type(return_type).value, TRUE, line)
            IN /\ scope_stack' = enter_scope(Store(scope_stack, name, func_sym))
               /\ in_function' = TRUE
               /\ current_return_type' = func_sym.type_info
               /\ call_stack' = Append(InBody(call_stack), Frame(name, return_type, line, "params"))
               /\ outcome' = Running

\* mutant: the duplicate check looks at every scope of the stack
visit_parameter_whole_chain(name, type, line) ==
    /\ nodes_left > 0
    /\ call_stack # <<>>
    /\ back(call_stack).pc = "params"
    /\ nodes_left' = nodes_left - 1
    /\ node' = Node("Parameter", name, type, NoInitializer, line)
    /\ UNCHANGED <<test, test_result>>
    /\ IF parse_type(type).thrown
       THEN Raise(parse_type(type).error)
       ELSE LET sym == Symbol(name, "Variable", parse_type(type).value, TRUE, line)
            IN IF find_symbol(scope_stack, name).found
               THEN Raise(SemanticError(<<"Duplicate parameter name '", name, "'">>, line))
               ELSE /\ scope_stack' = Store(scope_stack, name, sym)
                    /\ UNCHANGED <<in_function, current_return_type, call_stack, outcome>>

visit_parameter(name, type, line) ==
    /\ nodes_left > 0
    /\ call_stack # <<>>
    /\ back(call_stack).pc = "params"
    /\ nodes_left' = nodes_left - 1
    /\ node' = Node("Parameter", name, type, NoInitializer, line)
    /\ UNCHANGED <<test, test_result>>
    /\ IF parse_type(type).thrown
       THEN Raise(parse_type(type).error)
       ELSE LET sym == Symbol(name, "Variable", parse_type(type).value, TRUE, line)
            IN IF count(back(scope_stack), name) # 0
               THEN Raise(SemanticError(<<"Duplicate parameter name '", name, "'">>, line))
               ELSE /\ scope_stack' = Store(scope_stack, name, sym)
                    /\ UNCHANGED <<in_function, current_return_type, call_stack, outcome>>

\* visit_function after the body loop
function_return ==
    /\ call_stack # <<>>
    /\ node' = Node("Function", back(call_stack).name, back(call_stack).return_type,
                    NoInitializer, back(call_stack).line)
    /\ UNCHANGED <<nodes_left, test, test_result>>
    /\ IF exit_scope(scope_stack).thrown
       THEN /\ outcome' = exit_scope(scope_stack).error
            /\ call_stack' = <<>>
            /\ UNCHANGED <<scope_stack, in_function, current_return_type>>
       ELSE /\ scope_stack' = exit_scope(scope_stack).value
            /\ in_function' = FALSE
            /\ call_stack' = SubSeq(call_stack, 1, Len(call_stack) - 1)
            /\ outcome' = IF Len(call_stack) = 1 THEN Ok ELSE Running
            /\ UNCHANGED current_return_type

\* mutant: the symbol is stored before the initializer's type is checked
visit_let_decl_store_first(name, type_annotation, initializer, line) ==
    /\ visit(Node("LetDeclaration", name, type_annotation, initializer, line))
    /\ IF count(back(scope_stack), name) # 0
       THEN Raise(SemanticError(<<"Duplicate variable name '", name, "'">>, line))
       ELSE IF type_annotation # NoAnnotation /\ parse_type(type_annotation).thrown
       THEN Raise(parse_type(type_annotation).error)
       ELSE \E w \in Garbage(type_annotation, initializer, IndeterminateInt),
               s \in Garbage(type_annotation, initializer, IndeterminateBool) :
            LET declared == IF type_annotation # NoAnnotation
                            THEN parse_type(type_annotation).value
                            ELSE TypeInfo("Auto", w, s, FALSE)
                init_type == visit_expression(initializer)
                inferred == IF initializer # NoInitializer /\ declared.kind = "Auto"
                            THEN init_type ELSE declared
                sym == Symbol(name, "Variable", [inferred EXCEPT !.is_mutable = FALSE],
                              initializer # NoInitializer, line)
            IN /\ scope_stack' = Store(scope_stack, name, sym)
               /\ UNCHANGED <<in_function, current_return_type>>
               /\ IF /\ initializer # NoInitializer
                     /\ declared.kind # "Auto"
                     /\ ~types_compatible(declared, init_type)
                  THEN /\ outcome' = SemanticError(<<"Type mismatch in let declaration">>, line)
                       /\ call_stack' = <<>>
                  ELSE Return

visit_let_decl(name, type_annotation, initializer, line) ==
    /\ visit(Node("LetDeclaration", name, type_annotation, initializer, line))
    /\ IF count(back(scope_stack), name) # 0
       THEN Raise(SemanticError(<<"Duplicate variable name '", name, "'">>, line))
       ELSE IF type_annotation # NoAnnotation /\ parse_type(type_annotation).thrown
       THEN Raise(parse_type(type_annotation).error)
       ELSE \E w \in Garbage(type_annotation, initializer, IndeterminateInt),
               s \in Garbage(type_annotation, initializer, IndeterminateBool) :
            LET declared == IF type_annotation # NoAnnotation
                            THEN parse_type(type_annotation).value
                            ELSE TypeInfo("Auto", w, s, FALSE)
                init_type == visit_expression(initializer)
                inferred == IF initializer # NoInitializer /\ declared.kind = "Auto"
                            THEN init_type ELSE declared
                sym == Symbol(name, "Variable", [inferred EXCEPT !.is_mutable = FALSE],
                              initializer # NoInitializer, line)
            IN IF /\ initializer # NoInitializer
                  /\ declared.kind # "Auto"
                  /\ ~types_compatible(declared, init_type)
               THEN Raise(SemanticError(<<"Type mismatch in let declaration">>, line))
               ELSE /\ scope_stack' = Store(scope_stack, name, sym)
                    /\ Return
                    /\ UNCHANGED <<in_function, current_return_type>>

\* mutant: the check that a var has an initializer is missing
visit_var_decl_optional_initializer(name, type_annotation, initializer, line) ==
    /\ visit(Node("VarDeclaration", name, type_annotation, initializer, line))
    /\ IF count(back(scope_stack), name) # 0
       THEN Raise(SemanticError(<<"Duplicate variable name '", name, "'">>, line))
       ELSE IF type_annotation # NoAnnotation /\ parse_type(type_annotation).thrown
       THEN Raise(parse_type(type_annotation).error)
       ELSE LET declared == IF type_annotation # NoAnnotation
                            THEN parse_type(type_annotation).value
                            ELSE TypeInfo("Auto", 0, FALSE, FALSE)
                init_type == visit_expression(initializer)
                inferred == IF declared.kind = "Auto" THEN init_type ELSE declared
                sym == Symbol(name, "Variable", [inferred EXCEPT !.is_mutable = TRUE],
                              TRUE, line)
            IN IF declared.kind # "Auto" /\ ~types_compatible(declared, init_type)
               THEN Raise(SemanticError(<<"Type mismatch in var declaration">>, line))
               ELSE /\ scope_stack' = Store(scope_stack, name, sym)
                    /\ Return
                    /\ UNCHANGED <<in_function, current_return_type>>

visit_var_decl(name, type_annotation, initializer, line) ==
    /\ visit(Node("VarDeclaration", name, type_annotation, initializer, line))
    /\ IF count(back(scope_stack), name) # 0
       THEN Raise(SemanticError(<<"Duplicate variable name '", name, "'">>, line))
       ELSE IF type_annotation # NoAnnotation /\ parse_type(type_annotation).thrown
       THEN Raise(parse_type(type_annotation).error)
       ELSE IF initializer = NoInitializer
       THEN Raise(SemanticError(<<"var declaration requires initializer">>, line))
       ELSE LET declared == IF type_annotation # NoAnnotation
                            THEN parse_type(type_annotation).value
                            ELSE TypeInfo("Auto", 0, FALSE, FALSE)
                init_type == visit_expression(initializer)
                inferred == IF declared.kind = "Auto" THEN init_type ELSE declared
                sym == Symbol(name, "Variable", [inferred EXCEPT !.is_mutable = TRUE],
                              TRUE, line)
            IN IF declared.kind # "Auto" /\ ~types_compatible(declared, init_type)
               THEN Raise(SemanticError(<<"Type mismatch in var declaration">>, line))
               ELSE /\ scope_stack' = Store(scope_stack, name, sym)
                    /\ Return
                    /\ UNCHANGED <<in_function, current_return_type>>

\* mutant: the initializer is required before the annotation is resolved
visit_const_decl_initializer_first(name, type_annotation, initializer, line) ==
    /\ visit(Node("ConstDeclaration", name, type_annotation, initializer, line))
    /\ IF count(back(scope_stack), name) # 0
       THEN Raise(SemanticError(<<"Duplicate constant name '", name, "'">>, line))
       ELSE IF initializer = NoInitializer
       THEN Raise(SemanticError(<<"const declaration requires initializer">>, line))
       ELSE IF type_annotation # NoAnnotation /\ parse_type(type_annotation).thrown
       THEN Raise(parse_type(type_annotation).error)
       ELSE LET declared == IF type_annotation # NoAnnotation
                            THEN parse_type(type_annotation).value
                            ELSE TypeInfo("Auto", 0, FALSE, FALSE)
                init_type == visit_expression(initializer)
                inferred == IF declared.kind = "Auto" THEN init_type ELSE declared
                sym == Symbol(name, "Constant", [inferred EXCEPT !.is_mutable = FALSE],
                              TRUE, line)
            IN IF declared.kind # "Auto" /\ ~types_compatible(declared, init_type)
               THEN Raise(SemanticError(<<"Type mismatch in const declaration">>, line))
               ELSE /\ scope_stack' = Store(scope_stack, name, sym)
                    /\ Return
                    /\ UNCHANGED <<in_function, current_return_type>>

visit_const_decl(name, type_annotation, initializer, line) ==
    /\ visit(Node("ConstDeclaration", name, type_annotation, initializer, line))
    /\ IF count(back(scope_stack), name) # 0
       THEN Raise(SemanticError(<<"Duplicate constant name '", name, "'">>, line))
       ELSE IF type_annotation # NoAnnotation /\ parse_type(type_annotation).thrown
       THEN Raise(parse_type(type_annotation).error)
       ELSE IF initializer = NoInitializer
       THEN Raise(SemanticError(<<"const declaration requires initializer">>, line))
       ELSE LET declared == IF type_annotation # NoAnnotation
                            THEN parse_type(type_annotation).value
                            ELSE TypeInfo("Auto", 0, FALSE, FALSE)
                init_type == visit_expression(initializer)
                inferred == IF declared.kind = "Auto" THEN init_type ELSE declared
                sym == Symbol(name, "Constant", [inferred EXCEPT !.is_mutable = FALSE],
                              TRUE, line)
            IN IF declared.kind # "Auto" /\ ~types_compatible(declared, init_type)
               THEN Raise(SemanticError(<<"Type mismatch in const declaration">>, line))
               ELSE /\ scope_stack' = Store(scope_stack, name, sym)
                    /\ Return
                    /\ UNCHANGED <<in_function, current_return_type>>

\* visit() on a node whose kind no case of the switch names: falls through
visit_unhandled(kind) ==
    /\ visit(Node(kind, "", NoAnnotation, NoInitializer, NoLine))
    /\ Return
    /\ UNCHANGED <<scope_stack, in_function, current_return_type>>

\* the nodes of the input are on consecutive lines, in the order of the visit
NextLine == MaxNodes - nodes_left + 1

Next ==
    \/ \E n \in Names, t \in Spellings : visit_function(n, t, NextLine)
    \/ \E n \in Names, t \in Spellings : visit_parameter(n, t, NextLine)
    \/ function_return
    \/ \E n \in Names, t \in Annotations, i \in Initializers : visit_let_decl(n, t, i, NextLine)
    \/ \E n \in Names, t \in Annotations, i \in Initializers : visit_var_decl(n, t, i, NextLine)
    \/ \E n \in Names, t \in Annotations, i \in Initializers : visit_const_decl(n, t, i, NextLine)
    \/ \E k \in OtherKinds : visit_unhandled(k)

Spec == Init /\ [][Next]_vars

\* ---------------------------------------------------------------- type system
\* parse_type and types_compatible called directly, on more arguments than
\* the analysis of a small AST gives them
TestSpellings ==
    {"i8", "u8", "i16", "u16", "i32", "u32", "i64", "u64", "i128", "u128",
     "f32", "f64", "str", "string", "bool", "auto",
     "void", "i7", "float", "int", "I32", "u1", "f16", ""}
Kinds == {"Int", "Float", "String", "Bool", "Auto", "Unknown"}
Widths == {0, 32, 64}
TypeInfos == [kind : Kinds, width : Widths, is_signed : BOOLEAN, is_mutable : BOOLEAN]

TypesInit ==
    /\ scope_stack = enter_scope(<<>>)
    /\ in_function = FALSE
    /\ current_return_type = Uninitialized
    /\ call_stack = <<>>
    /\ outcome = NoCall
    /\ node = NoNode
    /\ nodes_left = MaxNodes
    /\ test_result = NoResult
    /\ \/ \E t \in TestSpellings :
             test = Test("parse_type", t, Uninitialized, Uninitialized)
       \/ \E e \in TypeInfos, a \in TypeInfos :
             test = Test("types_compatible", "", e, a)

call_parse_type ==
    /\ test.fn = "parse_type" /\ ~test.done
    /\ test' = [test EXCEPT !.done = TRUE]
    /\ test_result' = parse_type(test.type_name)
    /\ UNCHANGED <<scope_stack, in_function, current_return_type, call_stack, outcome,
                   node, nodes_left>>

call_types_compatible ==
    /\ test.fn = "types_compatible" /\ ~test.done
    /\ test' = [test EXCEPT !.done = TRUE]
    /\ test_result' = Ret(types_compatible(test.expected, test.actual))
    /\ UNCHANGED <<scope_stack, in_function, current_return_type, call_stack, outcome,
                   node, nodes_left>>

TypesNext == call_parse_type \/ call_types_compatible

TypesSpec == TypesInit /\ [][TypesNext]_vars

\* ---------------------------------------------------------------- properties
IsError(o) == o.status = "error"

DeclKinds == {"LetDeclaration", "VarDeclaration", "ConstDeclaration"}

\* this step dispatched node' to the handler of one of the kinds
Visited(kinds) == nodes_left' = nodes_left - 1 /\ node'.kind \in kinds

\* this step is the end of a visit_function activation
Returned == nodes_left' = nodes_left /\ Len(call_stack') = Len(call_stack) - 1

\* the scopes below the innermost one
Outer(stack) == SubSeq(stack, 1, Len(stack) - 1)

\* name is bound in some scope of the stack
BoundAnywhere(stack, name) == \E k \in 1..Len(stack) : name \in DOMAIN stack[k]

\* the binding of name in the innermost scope that has one
Innermost(stack, name) ==
    LET idx == {k \in 1..Len(stack) : name \in DOMAIN stack[k]}
    IN IF idx = {} THEN nullptr
       ELSE Ptr(stack[CHOOSE k \in idx : \A j \in idx : j <= k][name])

DuplicateSymbol(o) ==
    /\ o.cls = "SemanticError"
    /\ o.what[1] \in {"Duplicate variable name '", "Duplicate constant name '"}
DuplicateFunction(o) ==
    o.cls = "SemanticError" /\ o.what[1] = "Duplicate function name '"
TypeMismatch(o) ==
    /\ o.cls = "SemanticError"
    /\ o.what[1] \in {"Type mismatch in let declaration", "Type mismatch in var declaration",
                      "Type mismatch in const declaration"}
MissingInitializer(o) ==
    /\ o.cls = "SemanticError"
    /\ o.what[1] \in {"var declaration requires initializer",
                      "const declaration requires initializer"}

\* the annotation of the node resolves
Resolves(type) == type # NoAnnotation /\ ~parse_type(type).thrown

\* the static type of a literal initializer (spec 4.5)
LiteralType(expr) ==
    IF expr = "IntegerLiteral" THEN TypeInfo("Int", 32, TRUE, FALSE)
    ELSE TypeInfo("String", 0, FALSE, FALSE)

\* C1: when a parameter or a body statement of a function fails, the scopes
\* pushed for the functions in progress are popped before the error leaves
\* analyze: the stack is as deep as it was before the call.
C1_FailureRestoresDepth ==
    [][(call_stack # <<>> /\ IsError(outcome'))
        => Len(scope_stack') = Len(scope_stack) - Len(call_stack)]_vars

\* C2: the program of main.cpp (function main returning "void", no
\* parameters, body: let a: i32 = <integer literal>) is analysed without error.
C2_MainProgramSucceeds ==
    [][(\/ /\ Idle
           /\ scope_stack = <<EmptyScope>>
           /\ Visited({"Function"})
           /\ node'.name = "main" /\ node'.type = "void"
        \/ /\ Len(call_stack) = 1
           /\ back(call_stack).name = "main" /\ back(call_stack).return_type = "void"
           /\ back(scope_stack) = EmptyScope
           /\ Visited({"LetDeclaration"})
           /\ node'.name = "a" /\ node'.type = "i32"
           /\ node'.initializer = "IntegerLiteral")
        => ~IsError(outcome')]_vars

\* C3: a declaration with a non-auto annotation T and an initializer of static
\* type T2 raises TypeMismatch exactly when T and T2 are incompatible, and
\* otherwise registers the symbol with type T (i32 with an integer literal
\* succeeds, i32 with a string literal fails).
C3_MismatchIffIncompatible ==
    [][(/\ Visited(DeclKinds)
        /\ Resolves(node'.type)
        /\ parse_type(node'.type).value.kind # "Auto"
        /\ node'.initializer # NoInitializer
        /\ node'.name \notin DOMAIN back(scope_stack))
        => LET T == parse_type(node'.type).value
               n == node'.name
           IN IF types_compatible(T, LiteralType(node'.initializer))
              THEN /\ ~IsError(outcome')
                   /\ n \in DOMAIN back(scope_stack')
                   /\ back(scope_stack')[n].type_info.kind = T.kind
                   /\ back(scope_stack')[n].type_info.width = T.width
                   /\ back(scope_stack')[n].type_info.is_signed = T.is_signed
              ELSE TypeMismatch(outcome') /\ outcome'.line = node'.line]_vars

\* C4: a let, var or const whose name the innermost scope already binds fails
\* with a duplicate error at the line of the new declaration, and no scope
\* changes (the earlier binding stays as it was).
C4_DuplicateInCurrentScope ==
    [][(Visited(DeclKinds) /\ node'.name \in DOMAIN back(scope_stack))
        => /\ DuplicateSymbol(outcome')
           /\ outcome'.what[2] = node'.name
           /\ outcome'.line = node'.line
           /\ scope_stack' = scope_stack]_vars

\* a duplicate declaration was rejected at a line other than that of the
\* binding it collides with, which is still in the innermost scope
C4_Witness ==
    /\ node.kind \in DeclKinds
    /\ DuplicateSymbol(outcome)
    /\ outcome.line = node.line
    /\ node.name \in DOMAIN back(scope_stack)
    /\ back(scope_stack)[node.name].declaration_line # node.line

\* C5: a declaration whose name only outer scopes bind is not a duplicate; once
\* registered, lookup from the inner scope returns the inner symbol and the
\* outer scopes are untouched; when the inner scope is left, lookup returns
\* what the scopes below it bind.
C5_Shadowing ==
    [][/\ (/\ Visited(DeclKinds)
           /\ node'.name \notin DOMAIN back(scope_stack)
           /\ BoundAnywhere(Outer(scope_stack), node'.name))
           => /\ ~DuplicateSymbol(outcome')
              /\ Outer(scope_stack') = Outer(scope_stack)
              /\ ~IsError(outcome')
                   => /\ find_symbol(scope_stack', node'.name).found
                      /\ find_symbol(scope_stack', node'.name).symbol
                           = back(scope_stack')[node'.name]
                      /\ find_symbol(scope_stack', node'.name).symbol.declaration_line
                           = node'.line
                      /\ find_symbol(scope_stack', node'.name).symbol.symbol_type
                           \in {"Variable", "Constant"}
       /\ Returned
           => \A n \in Names :
                find_symbol(scope_stack', n) = Innermost(Outer(scope_stack), n)]_vars

\* inside a function body a declaration has just been registered under a name
\* that an outer scope binds too, by another declaration
C5_Witness ==
    /\ call_stack # <<>>
    /\ node.kind \in DeclKinds
    /\ ~IsError(outcome)
    /\ node.name \in DOMAIN back(scope_stack)
    /\ back(scope_stack)[node.name].declaration_line = node.line
    /\ BoundAnywhere(Outer(scope_stack), node.name)
    /\ Innermost(Outer(scope_stack), node.name).symbol.declaration_line # node.line

\* C6: every symbol stored in a scope has a concrete type: its kind is not Auto.
C6_NoAutoSymbol ==
    \A k \in 1..Len(scope_stack) : \A n \in DOMAIN scope_stack[k] :
        scope_stack[k][n].type_info.kind # "Auto"

\* C7: a var or const without initializer always fails and registers nothing,
\* with the missing-initializer error at its line when the checks that come
\* before it (duplicate name, annotation spelling) pass; a let without
\* initializer and with a resolvable annotation registers an uninitialized
\* symbol; every declaration that has an initializer and succeeds registers an
\* initialized symbol.
C7_Initializers ==
    [][/\ (Visited({"VarDeclaration", "ConstDeclaration"}) /\ node'.initializer = NoInitializer)
           => /\ IsError(outcome')
              /\ scope_stack' = scope_stack
              /\ (/\ node'.name \notin DOMAIN back(scope_stack)
                  /\ (node'.type = NoAnnotation \/ Resolves(node'.type)))
                   => /\ MissingInitializer(outcome')
                      /\ outcome'.line = node'.line
       /\ (/\ Visited({"LetDeclaration"})
           /\ node'.initializer = NoInitializer
           /\ node'.name \notin DOMAIN back(scope_stack)
           /\ Resolves(node'.type))
           => /\ ~IsError(outcome')
              /\ node'.name \in DOMAIN back(scope_stack')
              /\ back(scope_stack')[node'.name].is_initialized = FALSE
              /\ back(scope_stack')[node'.name].declaration_line = node'.line
       /\ (/\ Visited(DeclKinds)
           /\ node'.initializer # NoInitializer
           /\ ~IsError(outcome'))
           => /\ node'.name \in DOMAIN back(scope_stack')
              /\ back(scope_stack')[node'.name].is_initialized = TRUE
              /\ back(scope_stack')[node'.name].declaration_line = node'.line]_vars

\* a var or const without initializer has just been rejected for that reason,
\* while the scope holds a let that was registered uninitialized
C7_Witness ==
    /\ node.kind \in {"VarDeclaration", "ConstDeclaration"}
    /\ node.initializer = NoInitializer
    /\ MissingInitializer(outcome)
    /\ outcome.line = node.line
    /\ node.name \notin DOMAIN back(scope_stack)
    /\ \E n \in DOMAIN back(scope_stack) :
         /\ back(scope_stack)[n].symbol_type = "Variable"
         /\ back(scope_stack)[n].is_initialized = FALSE

\* C8: visiting a node whose kind has no handler fails; it is never skipped.
C8_UnhandledKindFails ==
    [][Visited(OtherKinds) => IsError(outcome')]_vars

\* C9: a function declaration fails with the duplicate-function error at its
\* line exactly when some scope of the stack binds its name; when it fails,
\* nothing is registered and no scope is pushed.
C9_FunctionNameUnique ==
    [][Visited({"Function"})
        => /\ (DuplicateFunction(outcome') /\ outcome'.what[2] = node'.name
                 /\ outcome'.line = node'.line)
                <=> BoundAnywhere(scope_stack, node'.name)
           /\ BoundAnywhere(scope_stack, node'.name) => IsError(outcome')
           /\ IsError(outcome') => scope_stack' = scope_stack]_vars

\* a function has just been rejected as the duplicate of a name that only an
\* outer scope binds
C9_Witness ==
    /\ node.kind = "Function"
    /\ DuplicateFunction(outcome)
    /\ outcome.line = node.line
    /\ Len(scope_stack) >= 2
    /\ node.name \notin DOMAIN back(scope_stack)
    /\ BoundAnywhere(Outer(scope_stack), node.name)

\* C10: the scope stack is never empty: it holds the global scope and one scope
\* for each function in progress, and the underflow error is never raised.
C10_StackNeverEmpty ==
    /\ Len(scope_stack) >= 1
    /\ Len(scope_stack) >= Len(call_stack) + 1
    /\ outcome.cls # "std::logic_error"

\* an analyze call of a function has returned (exit_scope has run) on an
\* analyzer on which an earlier call had failed inside a function body
C10_Witness ==
    /\ outcome = Ok
    /\ node.kind = "Function"
    /\ call_stack = <<>>
    /\ Len(scope_stack) = 2
    /\ node.name \in DOMAIN scope_stack[2]
    /\ scope_stack[2][node.name].symbol_type = "Function"
    /\ scope_stack[2][node.name].declaration_line = node.line

\* the scopes that were on the stack when the outermost function in progress
\* was entered
Enclosing(stack, frames) == SubSeq(stack, 1, Len(stack) - Len(frames))

\* every binding of a scope that stays on the stack is kept as it is
BindingsKept ==
    \A k \in 1..Len(scope_stack) : k <= Len(scope_stack') =>
        \A n \in DOMAIN scope_stack[k] :
            n \in DOMAIN scope_stack'[k] /\ scope_stack'[k][n] = scope_stack[k][n]

DuplicateParameter(o) ==
    o.cls = "SemanticError" /\ o.what[1] = "Duplicate parameter name '"
UnknownType(o) ==
    o.cls = "std::runtime_error" /\ o.what[1] = "Unknown type: "

\* C11: when the processing of a function ends, by return or by an error,
\* lookup finds for every name what the scopes enclosing the function bind (so
\* none of its parameters and locals); a registered parameter is an
\* initialized Variable of the function's scope and stays so during the body.
C11_NoSymbolOutlivesScope ==
    [][/\ Returned
           => \A n \in Names :
                find_symbol(scope_stack', n) = Innermost(Outer(scope_stack), n)
       /\ (call_stack # <<>> /\ IsError(outcome'))
           => \A n \in Names :
                find_symbol(scope_stack', n)
                  = Innermost(Enclosing(scope_stack, call_stack), n)
       /\ (Visited({"Parameter"}) /\ ~IsError(outcome'))
           => /\ node'.name \in DOMAIN back(scope_stack')
              /\ back(scope_stack')[node'.name].symbol_type = "Variable"
              /\ back(scope_stack')[node'.name].is_initialized
              /\ back(scope_stack')[node'.name].declaration_line = node'.line
       /\ BindingsKept]_vars

\* C12 (as stated): a parameter whose name an earlier parameter of the same
\* function has fails with the duplicate-parameter error at its line.
C12_RepeatedParameterFails ==
    [][(Visited({"Parameter"}) /\ node'.name \in DOMAIN back(scope_stack))
        => /\ DuplicateParameter(outcome')
           /\ outcome'.line = node'.line]_vars

\* C12 (amended): a parameter whose type spelling resolves fails with the
\* duplicate-parameter error at its line exactly when the function's own new
\* scope binds its name; otherwise it is registered, also when an outer scope
\* binds the name.  A parameter whose type spelling does not resolve fails
\* with the unknown-type error, repeated name or not.
C12_DuplicateParameter ==
    [][Visited({"Parameter"})
        => IF ~Resolves(node'.type)
           THEN UnknownType(outcome') /\ scope_stack' = scope_stack
           ELSE IF node'.name \in DOMAIN back(scope_stack)
           THEN /\ DuplicateParameter(outcome')
                /\ outcome'.what[2] = node'.name
                /\ outcome'.line = node'.line
                /\ scope_stack' = scope_stack
           ELSE /\ ~IsError(outcome')
                /\ node'.name \in DOMAIN back(scope_stack')
                /\ back(scope_stack')[node'.name].symbol_type = "Variable"
                /\ back(scope_stack')[node'.name].declaration_line = node'.line
                /\ Outer(scope_stack') = Outer(scope_stack)]_vars

\* a parameter named like its function was accepted, and its repetition has
\* just been rejected at the line of the repetition
C12_Witness ==
    /\ node.kind = "Parameter"
    /\ DuplicateParameter(outcome)
    /\ outcome.line = node.line
    /\ node.name \in DOMAIN back(scope_stack)
    /\ back(scope_stack)[node.name].symbol_type = "Variable"
    /\ back(scope_stack)[node.name].declaration_line # node.line
    /\ Len(scope_stack) >= 2
    /\ node.name \in DOMAIN scope_stack[Len(scope_stack) - 1]
    /\ scope_stack[Len(scope_stack) - 1][node.name].symbol_type = "Function"

\* C13: every failure of analyze is a SemanticError that carries the 1-based
\* line of the offending construct, the unknown-type failure included.
C13_ErrorCarriesLine ==
    IsError(outcome) =>
        /\ outcome.cls = "SemanticError"
        /\ outcome.what # <<>>
        /\ outcome.line >= 1
        /\ outcome.line = node.line

\* the kinds of node that visit() is called with
StatementKinds == DeclKinds \cup OtherKinds \cup {"Function"}

\* C16: while a body statement is processed, in_function is true and
\* current_return_type is the return type of the innermost function in
\* progress; after every analyze call in_function is false.
C16_InsideFunctionState ==
    [][/\ (call_stack # <<>> /\ Visited(StatementKinds))
           => /\ in_function
              /\ current_return_type = parse_type(back(call_stack).return_type).value
       /\ (call_stack' = <<>> /\ (Returned \/ Visited(StatementKinds \cup {"Parameter"})))
           => ~in_function']_vars

\* C17: a let/var/const reports the first rule it breaks in the order
\* duplicate name, annotation spelling, missing initializer (var, const),
\* initializer type; it succeeds when it breaks none.
C17_CheckOrder ==
    [][Visited(DeclKinds)
        => LET declared == IF node'.type = NoAnnotation
                           THEN TypeInfo("Auto", 0, FALSE, FALSE)
                           ELSE parse_type(node'.type).value
           IN IF node'.name \in DOMAIN back(scope_stack)
              THEN DuplicateSymbol(outcome') /\ outcome'.line = node'.line
              ELSE IF node'.type # NoAnnotation /\ parse_type(node'.type).thrown
              THEN UnknownType(outcome') /\ outcome'.what[2] = node'.type
              ELSE IF node'.kind # "LetDeclaration" /\ node'.initializer = NoInitializer
              THEN MissingInitializer(outcome') /\ outcome'.line = node'.line
              ELSE IF /\ node'.initializer # NoInitializer
                      /\ declared.kind # "Auto"
                      /\ ~types_compatible(declared, visit_expression(node'.initializer))
              THEN TypeMismatch(outcome') /\ outcome'.line = node'.line
              ELSE ~IsError(outcome')]_vars

\* a var that breaks three rules at once (name bound in the current scope,
\* unknown annotation, no initializer) was reported as a duplicate
C17_Witness ==
    /\ node.kind = "VarDeclaration"
    /\ node.name \in DOMAIN back(scope_stack)
    /\ ~Resolves(node.type) /\ node.type # NoAnnotation
    /\ node.initializer = NoInitializer
    /\ DuplicateSymbol(outcome)
    /\ outcome.line = node.line

\* C18: a let/var/const that fails leaves every scope of the stack as it was.
C18_FailedDeclarationFrame ==
    [][(Visited(DeclKinds) /\ IsError(outcome')) => scope_stack' = scope_stack]_vars

\* inside a function, a declaration of a fresh name has just failed its type
\* check, and its name is bound nowhere
C18_Witness ==
    /\ node.kind \in DeclKinds
    /\ TypeMismatch(outcome)
    /\ outcome.line = node.line
    /\ Len(scope_stack) >= 2
    /\ ~BoundAnywhere(scope_stack, node.name)

\* the scope in which the function of activation k was declared
EnclosingScope(stack, frames, k) == Len(stack) - Len(frames) + k - 1

\* the function of activation k is bound, as declared, in its enclosing scope
FunctionBound(stack, frames, k) ==
    LET e == EnclosingScope(stack, frames, k)
        f == frames[k]
    IN /\ f.name \in DOMAIN stack[e]
       /\ stack[e][f.name].symbol_type = "Function"
       /\ stack[e][f.name].declaration_line = f.line
       /\ find_symbol(SubSeq(stack, 1, e), f.name) = Ptr(stack[e][f.name])
       /\ find_symbol(stack, f.name).found

\* C19: from its first parameter on, a function in progress is bound as a
\* Function symbol in its enclosing scope, where lookup finds it; when a
\* parameter or a body statement fails it stays bound there; a function whose
\* name is bound is rejected as a duplicate at its line.
C19_FunctionSymbolStays ==
    /\ [](\A k \in 1..Len(call_stack) : FunctionBound(scope_stack, call_stack, k))
    /\ [][/\ (call_stack # <<>> /\ IsError(outcome'))
              => /\ scope_stack' = scope_stack
                 /\ \A k \in 1..Len(call_stack) :
                      FunctionBound(scope_stack', call_stack, k)
          /\ (Visited({"Function"}) /\ find_symbol(scope_stack, node'.name).found)
              => /\ DuplicateFunction(outcome')
                 /\ outcome'.what[2] = node'.name
                 /\ outcome'.line = node'.line]_vars

\* a parameter or a body statement of a function has just failed, the
\* function is still bound in the scope below the one left behind, and the
\* analyzer can be used again
C19_Witness ==
    /\ call_stack = <<>>
    /\ IsError(outcome)
    /\ node.kind \in DeclKinds \cup {"Parameter"}
    /\ nodes_left > 0
    /\ Len(scope_stack) = 2
    /\ \E n \in DOMAIN scope_stack[1] :
         /\ scope_stack[1][n].symbol_type = "Function"
         /\ scope_stack[1][n].declaration_line = node.line - 1
         /\ find_symbol(scope_stack, n).found

\* the sixteen spellings of the catalog, with the type each stands for
IntCatalog ==
    {<<"i8", 8, TRUE>>, <<"u8", 8, FALSE>>, <<"i16", 16, TRUE>>, <<"u16", 16, FALSE>>,
     <<"i32", 32, TRUE>>, <<"u32", 32, FALSE>>, <<"i64", 64, TRUE>>, <<"u64", 64, FALSE>>,
     <<"i128", 128, TRUE>>, <<"u128", 128, FALSE>>}
FloatCatalog == {<<"f32", 32>>, <<"f64", 64>>}
Catalog ==
    {c[1] : c \in IntCatalog} \cup {c[1] : c \in FloatCatalog}
      \cup {"str", "string", "bool", "auto"}

\* C14: parse_type returns a type for exactly the sixteen spellings of the
\* catalog: iN/uN give Int of width N, signed/unsigned, fN gives Float of
\* width N, str and string give the same String type, bool gives Bool, auto
\* gives Auto; every other spelling throws the unknown-type error.
C14_ParseTypeCatalog ==
    (test.fn = "parse_type" /\ test.done) =>
        LET t == test.type_name
            r == test_result
        IN /\ Cardinality(Catalog) = 16
           /\ r.thrown <=> t \notin Catalog
           /\ r.thrown => UnknownType(r.error) /\ r.error.what[2] = t
           /\ \A c \in IntCatalog : t = c[1] =>
                r.value.kind = "Int" /\ r.value.width = c[2] /\ r.value.is_signed = c[3]
           /\ \A c \in FloatCatalog : t = c[1] =>
                r.value.kind = "Float" /\ r.value.width = c[2]
           /\ t \in {"str", "string"} =>
                r.value.kind = "String" /\ r.value = parse_type("str").value
                  /\ r.value = parse_type("string").value
           /\ t = "bool" => r.value.kind = "Bool"
           /\ t = "auto" => r.value.kind = "Auto"

\* parse_type has been called on a spelling outside the catalog and has thrown
C14_Witness ==
    /\ test.fn = "parse_type" /\ test.done
    /\ test.type_name = "i7"
    /\ test_result.thrown

\* C15: types_compatible(expected, actual) is true exactly when expected is
\* Auto, or the kinds are equal and, for Int and Float, width and signedness
\* are equal too; is_mutable of either argument makes no difference.
C15_Compatible ==
    (test.fn = "types_compatible" /\ test.done) =>
        LET e == test.expected
            a == test.actual
        IN /\ test_result.value
                <=> \/ e.kind = "Auto"
                    \/ /\ e.kind = a.kind
                       /\ e.kind \in {"Int", "Float"}
                            => e.width = a.width /\ e.is_signed = a.is_signed
           /\ \A m1 \in BOOLEAN, m2 \in BOOLEAN :
                types_compatible([e EXCEPT !.is_mutable = m1], [a EXCEPT !.is_mutable = m2])
                  = test_result.value

\* i32 has been compared with u32 (no signed/unsigned coercion) and found
\* incompatible
C15_Witness ==
    /\ test.fn = "types_compatible" /\ test.done
    /\ test.expected.kind = "Int" /\ test.expected.width = 32 /\ test.expected.is_signed
    /\ test.actual.kind = "Int" /\ test.actual.width = 32 /\ ~test.actual.is_signed
    /\ test_result.value = FALSE

====
